---- MODULE Spec2Model ----
(***************************************************************************)
(* Model of the MaleCare clinical-trial chatbot backend:                   *)
(*   backend/app/core/state.py              ConversationState, active_states *)
(*   backend/app/routes/chat.py             submit_intake, handle_message,  *)
(*                                          end_session                     *)
(*   backend/app/services/nlp.py            extract_entities               *)
(*   backend/app/services/clinicaltrials_api.py  search_clinical_trials    *)
(*                                                                         *)
(* Python values are dynamically typed; every value of the model is a      *)
(* record [t, s, n] (type tag, string/list payload, integer payload), an   *)
(* object is a function from its attribute names to values, a dict is a    *)
(* function from its keys.  A str is a sequence of lexemes: words, the     *)
(* blank " " and the comma ",".                                            *)
(***************************************************************************)
EXTENDS Integers, Sequences, FiniteSets, TLC

VARIABLES
    active_states,  \* state.py:23   user_id -> ConversationState object (NoEntry: key absent)
    reply,          \* outcome of the last finished route handler call
    search,         \* the search_clinical_trials call in progress / last finished
    turn,           \* the handle_message turn suspended in `await search_clinical_trials`
    probe           \* the last direct call of a location helper: argument and result

vars == <<active_states, reply, search, turn, probe>>

(***************************************************************************)
(* Python values                                                           *)
(***************************************************************************)
PyNone     == [t |-> "NoneType", s |-> <<>>, n |-> 0]
PyStr(s)   == [t |-> "str",  s |-> s,    n |-> 0]
PyInt(n)   == [t |-> "int",  s |-> <<>>, n |-> n]
PyList(l)  == [t |-> "list", s |-> l,    n |-> 0]
PyTrue     == [t |-> "bool", s |-> <<>>, n |-> 1]
PyFalse    == [t |-> "bool", s |-> <<>>, n |-> 0]

\* Python truthiness: None, False, 0, "" and [] are falsy.
Truthy(v) ==
    CASE v.t = "NoneType" -> FALSE
      [] v.t = "bool"     -> v.n = 1
      [] v.t = "int"      -> v.n # 0
      [] OTHER            -> v.s # <<>>

\* `a or b`
PyOr(a, b) == IF Truthy(a) THEN a ELSE b

EmptyDict == [k \in {} |-> PyNone]

\* dict.get(key, default)
DictGet(d, key, default) == IF key \in DOMAIN d THEN d[key] ELSE default

(***************************************************************************)
(* Input domains                                                            *)
(***************************************************************************)
Users == {"u1", "u2"}

Boston     == PyStr(<<"Boston", " ", "Massachusetts">>)
Siloam     == PyStr(<<"Siloam", " ", "Springs", " ", "Arkansas">>)
Breast     == PyStr(<<"breast", " ", "cancer">>)
Lung       == PyStr(<<"lung", " ", "cancer">>)

\* IntakeForm (chat.py:12-20): pydantic guarantees str / int for the mandatory
\* fields; the two lists may be omitted (default []), null, or a list.
Form(cancer_type, location, comorbidities, prior_treatments) ==
    [ cancer_type      |-> cancer_type,
      stage            |-> PyStr(<<"2">>),
      age              |-> PyInt(45),
      sex              |-> PyStr(<<"female">>),
      location         |-> location,
      comorbidities    |-> comorbidities,
      prior_treatments |-> prior_treatments ]

IntakeForms ==
    { Form(Breast, Boston, PyNone, PyList(<<>>)),
      Form(Breast, Boston, PyList(<<>>), PyNone),
      Form(Lung, Siloam, PyList(<<"diabetes">>), PyList(<<"chemotherapy">>)),
      Form(Lung, Boston, PyList(<<"diabetes">>), PyNone) }

(***************************************************************************)
(* state.py: ConversationState                                             *)
(***************************************************************************)
\* state.py:5-12: __init__ sets seven attributes; intake_complete is not one.
ConversationState ==
    [ cancer_type      |-> PyNone,
      stage            |-> PyNone,
      age              |-> PyNone,
      sex              |-> PyNone,
      location         |-> PyNone,
      comorbidities    |-> PyList(<<>>),
      prior_treatments |-> PyList(<<>>) ]

hasattr(obj, name) == name \in DOMAIN obj

\* setattr(obj, name, value): sets or creates the attribute.
setattr(obj, name, value) ==
    [k \in DOMAIN obj \cup {name} |-> IF k = name THEN value ELSE obj[k]]

\* The store: a key that is absent from the dict maps to NoEntry.
NoEntry == [absent |-> TRUE]

InStore(u) == active_states[u] # NoEntry

\* Mutant: the sessions of the store hold one shared state object.
StorePutShared(store, u, state) ==
    [v \in DOMAIN store |-> IF v = u \/ store[v] # NoEntry THEN state ELSE store[v]]

\* active_states[user_id] = state
StorePut(store, u, state) == [store EXCEPT ![u] = state]

\* active_states.get(user_id, ConversationState())
StoreGet(u) == IF InStore(u) THEN active_states[u] ELSE ConversationState

(***************************************************************************)
(* str helpers: a str is a sequence of lexemes                             *)
(***************************************************************************)
Blank == " "
Comma == ","

\* str.lower() on one lexeme, for the words the model uses.
LowerWord(w) ==
    CASE w = "Massachusetts" -> "massachusetts"
      [] w = "Arkansas"      -> "arkansas"
      [] w = "Boston"        -> "boston"
      [] w = "Siloam"        -> "siloam"
      [] w = "Springs"       -> "springs"
      [] w = "New"           -> "new"
      [] w = "York"          -> "york"
      [] w = "MA"            -> "ma"
      [] w = "AR"            -> "ar"
      [] w = "NY"            -> "ny"
      [] OTHER               -> w

Lower(s) == [i \in 1..Len(s) |-> LowerWord(s[i])]

\* str.strip(): leading and trailing blanks removed.
RECURSIVE LStrip(_)
LStrip(s) == IF s # <<>> /\ Head(s) = Blank THEN LStrip(Tail(s)) ELSE s

RECURSIVE RStrip(_)
RStrip(s) ==
    IF s # <<>> /\ s[Len(s)] = Blank THEN RStrip(SubSeq(s, 1, Len(s) - 1)) ELSE s

Strip(s) == RStrip(LStrip(s))

\* str.split(): the maximal runs of non-blank lexemes.
RECURSIVE SplitFrom(_, _, _)
SplitFrom(s, cur, acc) ==
    IF s = <<>>
    THEN IF cur = <<>> THEN acc ELSE Append(acc, cur)
    ELSE IF Head(s) = Blank
         THEN SplitFrom(Tail(s), <<>>, IF cur = <<>> THEN acc ELSE Append(acc, cur))
         ELSE SplitFrom(Tail(s), Append(cur, Head(s)), acc)

Split(s) == SplitFrom(s, <<>>, <<>>)

\* " ".join(parts)
RECURSIVE Join(_)
Join(parts) ==
    IF parts = <<>> THEN <<>>
    ELSE IF Len(parts) = 1 THEN parts[1]
    ELSE parts[1] \o <<Blank>> \o Join(Tail(parts))

(***************************************************************************)
(* clinicaltrials_api.py:92-139  format_location_for_api                   *)
(***************************************************************************)
\* clinicaltrials_api.py:107-121: the keys are lower-case state names; a
\* two-word name is one key that contains a blank.
state_abbreviations ==
    (<<"alabama">> :> "AL") @@ (<<"alaska">> :> "AK") @@ (<<"arizona">> :> "AZ") @@
    (<<"arkansas">> :> "AR") @@ (<<"california">> :> "CA") @@ (<<"colorado">> :> "CO") @@
    (<<"connecticut">> :> "CT") @@ (<<"delaware">> :> "DE") @@ (<<"florida">> :> "FL") @@
    (<<"georgia">> :> "GA") @@ (<<"hawaii">> :> "HI") @@ (<<"idaho">> :> "ID") @@
    (<<"illinois">> :> "IL") @@ (<<"indiana">> :> "IN") @@ (<<"iowa">> :> "IA") @@
    (<<"kansas">> :> "KS") @@ (<<"kentucky">> :> "KY") @@ (<<"louisiana">> :> "LA") @@
    (<<"maine">> :> "ME") @@ (<<"maryland">> :> "MD") @@ (<<"massachusetts">> :> "MA") @@
    (<<"michigan">> :> "MI") @@ (<<"minnesota">> :> "MN") @@ (<<"mississippi">> :> "MS") @@
    (<<"missouri">> :> "MO") @@ (<<"montana">> :> "MT") @@ (<<"nebraska">> :> "NE") @@
    (<<"nevada">> :> "NV") @@ (<<"new", " ", "hampshire">> :> "NH") @@ (<<"new", " ", "jersey">> :> "NJ") @@
    (<<"new", " ", "mexico">> :> "NM") @@ (<<"new", " ", "york">> :> "NY") @@ (<<"north", " ", "carolina">> :> "NC") @@
    (<<"north", " ", "dakota">> :> "ND") @@ (<<"ohio">> :> "OH") @@ (<<"oklahoma">> :> "OK") @@
    (<<"oregon">> :> "OR") @@ (<<"pennsylvania">> :> "PA") @@ (<<"rhode", " ", "island">> :> "RI") @@
    (<<"south", " ", "carolina">> :> "SC") @@ (<<"south", " ", "dakota">> :> "SD") @@ (<<"tennessee">> :> "TN") @@
    (<<"texas">> :> "TX") @@ (<<"utah">> :> "UT") @@ (<<"vermont">> :> "VT") @@
    (<<"virginia">> :> "VA") @@ (<<"washington">> :> "WA") @@ (<<"west", " ", "virginia">> :> "WV") @@
    (<<"wisconsin">> :> "WI") @@ (<<"wyoming">> :> "WY")

\* Mutant: the state token is looked up as supplied, without lower().
format_location_case_sensitive(location) ==
    IF location.t # "str" THEN location
    ELSE LET parts == Split(Strip(location.s)) IN
         IF Len(parts) >= 2
         THEN LET last       == parts[Len(parts)]
                  city       == Join(SubSeq(parts, 1, Len(parts) - 1))
                  state_abbr == IF last \in DOMAIN state_abbreviations
                                THEN <<state_abbreviations[last]>>
                                ELSE last
              IN  PyStr(city \o <<Comma, Blank>> \o state_abbr)
         ELSE location

\* Mutant: an input that cannot be split in two is returned stripped.
format_location_stripped(location) ==
    IF location.t # "str" THEN location
    ELSE LET parts == Split(Strip(location.s)) IN
         IF Len(parts) >= 2
         THEN LET last       == parts[Len(parts)]
                  state_full == Lower(last)
                  city       == Join(SubSeq(parts, 1, Len(parts) - 1))
                  state_abbr == IF state_full \in DOMAIN state_abbreviations
                                THEN <<state_abbreviations[state_full]>>
                                ELSE last
              IN  PyStr(city \o <<Comma, Blank>> \o state_abbr)
         ELSE PyStr(Strip(location.s))

\* clinicaltrials_api.py:123-139.  `location.strip()` on a value that is no
\* str raises inside the try and the value is returned as it is.
format_location_for_api(location) ==
    IF location.t # "str" THEN location
    ELSE LET parts == Split(Strip(location.s)) IN
         IF Len(parts) >= 2
         THEN LET last       == parts[Len(parts)]
                  state_full == Lower(last)
                  city       == Join(SubSeq(parts, 1, Len(parts) - 1))
                  state_abbr == IF state_full \in DOMAIN state_abbreviations
                                THEN <<state_abbreviations[state_full]>>
                                ELSE last
              IN  PyStr(city \o <<Comma, Blank>> \o state_abbr)
         ELSE location

\* clinicaltrials_api_REAL.py:89-114: the qualifier form, None when the input
\* has fewer than two tokens or is no str.
parse_location_for_api(location) ==
    IF location.t # "str" THEN PyNone
    ELSE LET parts == Split(Strip(location.s)) IN
         IF Len(parts) >= 2
         THEN LET state == parts[Len(parts)]
                  city  == Join(SubSeq(parts, 1, Len(parts) - 1))
              IN  PyStr(<<"United States:">> \o state \o <<":">> \o city)
         ELSE PyNone

(***************************************************************************)
(* Direct calls of the two location helpers                                *)
(***************************************************************************)
\* The tokens of the locations: city and state words as the tests and the
\* docstrings spell them, and a city with the comma of the "City, ST" form.
LocationTokens ==
    { <<"Boston">>, <<"Boston", Comma>>, <<"New">>, <<"York">>,
      <<"Massachusetts">>, <<"MA">> }

MaxTokens == 4

TokenLists == UNION { [1..n -> LocationTokens] : n \in 0..MaxTokens }

\* The tokens with `sep` between them.
RECURSIVE JoinWith(_, _)
JoinWith(parts, sep) ==
    IF parts = <<>> THEN <<>>
    ELSE IF Len(parts) = 1 THEN parts[1]
    ELSE parts[1] \o sep \o JoinWith(Tail(parts), sep)

\* A location argument: tokens separated by one or two blanks, with or
\* without blanks around them; or None.
LocationInputs ==
    {PyNone} \cup
    { PyStr(lead \o JoinWith(toks, sep) \o trail) :
        toks \in TokenLists,
        sep \in {<<Blank>>, <<Blank, Blank>>},
        lead \in {<<>>, <<Blank>>},
        trail \in {<<>>, <<Blank>>} }

NoProbe == [fn |-> "none", arg |-> PyNone, result |-> PyNone, origin |-> PyNone, applied |-> 0]

\* The argument of the direct call to come.
ProbeOf(location) ==
    [fn |-> "none", arg |-> location, result |-> PyNone, origin |-> location, applied |-> 0]

\* format_location_for_api(location), as search_clinical_trials calls it
\* (clinicaltrials_api.py:29).
call_format_location_for_api ==
    /\ probe.applied = 0
    /\ probe' = [probe EXCEPT !.fn = "format_location_for_api",
                              !.result = format_location_for_api(probe.arg),
                              !.applied = 1]
    /\ UNCHANGED <<active_states, reply, search, turn>>

\* The formatted location is formatted once more.
call_format_location_again ==
    /\ probe.fn = "format_location_for_api"
    /\ probe.applied = 1
    /\ probe' = [probe EXCEPT !.arg = probe.result,
                              !.result = format_location_for_api(probe.result),
                              !.applied = 2]
    /\ UNCHANGED <<active_states, reply, search, turn>>

\* parse_location_for_api(location) (clinicaltrials_api_REAL.py:46).
call_parse_location_for_api ==
    /\ probe.applied = 0
    /\ probe' = [probe EXCEPT !.fn = "parse_location_for_api",
                              !.result = parse_location_for_api(probe.arg),
                              !.applied = 1]
    /\ UNCHANGED <<active_states, reply, search, turn>>

(***************************************************************************)
(* clinicaltrials_api.py:142-213  parse_trials                             *)
(***************************************************************************)
\* A raw study of the registry's response: its nctId and whether the body of
\* the per-record try block (lines 158-207) runs through ("ok") or raises
\* ("bad": the study is no dict, a phase or a status is no str, ...).  The
\* studies list no locations, so the trial's location is the requested one.
RawStudies ==
    { [nctId |-> "NCT1", shape |-> "ok"],
      [nctId |-> "NCT2", shape |-> "bad"] }

\* clinicaltrials_api.py:195-205
Trial(study, requested_location, is_nationwide) ==
    [ nct_id        |-> PyStr(<<study.nctId>>),
      location      |-> requested_location,
      link          |-> PyStr(<<"https://clinicaltrials.gov/study/", study.nctId>>),
      is_nationwide |-> is_nationwide ]

\* Mutant: the first study that fails to parse ends the loop.
RECURSIVE parse_trials_abort_on_bad(_, _, _)
parse_trials_abort_on_bad(studies, requested_location, is_nationwide) ==
    IF studies = <<>> THEN <<>>
    ELSE IF Head(studies).shape = "ok"
         THEN <<Trial(Head(studies), requested_location, is_nationwide)>>
                  \o parse_trials_abort_on_bad(Tail(studies), requested_location, is_nationwide)
         ELSE <<>>

\* Mutant: only the first record carries the flag of the call, the others False.
RECURSIVE parse_trials_flag_first(_, _, _)
parse_trials_flag_first(studies, requested_location, is_nationwide) ==
    IF studies = <<>> THEN <<>>
    ELSE LET rest == parse_trials_flag_first(Tail(studies), requested_location, PyFalse) IN
         IF Head(studies).shape = "ok"
         THEN <<Trial(Head(studies), requested_location, is_nationwide)>> \o rest
         ELSE rest

\* clinicaltrials_api.py:154-213
RECURSIVE parse_trials(_, _, _)
parse_trials(studies, requested_location, is_nationwide) ==
    IF studies = <<>> THEN <<>>
    ELSE LET rest == parse_trials(Tail(studies), requested_location, is_nationwide) IN
         IF Head(studies).shape = "ok"
         THEN <<Trial(Head(studies), requested_location, is_nationwide)>> \o rest
         ELSE rest

\* Direct calls of parse_trials: a second study that parses, so that the
\* order of the records shows.
ProbeStudies == RawStudies \cup { [nctId |-> "NCT3", shape |-> "ok"] }

MaxProbeStudies == 3

ProbeStudyLists == UNION { [1..n -> ProbeStudies] : n \in 0..MaxProbeStudies }

ParseArgs ==
    [ studies : ProbeStudyLists, requested_location : {Boston, Siloam},
      is_nationwide : {PyFalse, PyTrue} ]

\* parse_trials(studies, requested_location, is_nationwide)
call_parse_trials ==
    /\ probe.applied = 0
    /\ probe' = [probe EXCEPT !.fn = "parse_trials",
                              !.result = parse_trials(probe.arg.studies,
                                                      probe.arg.requested_location,
                                                      probe.arg.is_nationwide),
                              !.applied = 1]
    /\ UNCHANGED <<active_states, reply, search, turn>>

\* clinicaltrials_api.py:216-241
get_error_response(cancer_type, location, error_msg) ==
    << [ nct_id   |-> PyStr(<<"API_ERROR">>),
         title    |-> PyStr(<<"Unable to fetch trials at this time (", error_msg, ")">>),
         status   |-> PyStr(<<"API Unavailable">>),
         location |-> location,
         link     |-> PyStr(<<"https://clinicaltrials.gov">>),
         message  |-> PyStr(<<"We're having trouble connecting to ClinicalTrials.gov. Please try again in a moment.">>) ] >>

(***************************************************************************)
(* clinicaltrials_api.py:8-89  search_clinical_trials                      *)
(***************************************************************************)
MaxStudies == 2

StudyLists == UNION { [1..n -> RawStudies] : n \in 0..MaxStudies }

\* What one `await client.get(...)` followed by raise_for_status(),
\* response.json() and data.get("studies", []) can come to: a timeout
\* (httpx.TimeoutException), any other httpx.HTTPError (non-2xx status,
\* connection error), a body on which json(), data.get or the iteration of
\* parse_trials raises (no JSON, no JSON object, "studies": null), or the
\* studies.  A body without "studies" is the studies <<>>; elements that are
\* no study objects are "bad" studies.
RegistryResponses ==
    { [kind |-> k, studies |-> <<>>] : k \in {"timeout", "http_error", "malformed"} }
    \cup { [kind |-> "ok", studies |-> s] : s \in StudyLists }

\* clinicaltrials_api.py:32-38
ScopedParams(cancer_type, location) ==
    ("query.cond" :> cancer_type) @@
    ("query.locn" :> format_location_for_api(location)) @@
    ("filter.overallStatus" :> PyStr(<<"RECRUITING">>)) @@
    ("pageSize" :> PyInt(10)) @@
    ("format" :> PyStr(<<"json">>))

\* Mutant: the second request reuses the parameters of the first.
NationwideParamsWithLocn(cancer_type) == ScopedParams(cancer_type, search.location)

\* clinicaltrials_api.py:61-66
NationwideParams(cancer_type) ==
    ("query.cond" :> cancer_type) @@
    ("filter.overallStatus" :> PyStr(<<"RECRUITING">>)) @@
    ("pageSize" :> PyInt(10)) @@
    ("format" :> PyStr(<<"json">>))

\* clinicaltrials_api.py:79-89: the message of the except clause that catches.
ErrorMsg(kind) ==
    CASE kind = "timeout"    -> "Request timed out"
      [] kind = "http_error" -> "API unavailable"
      [] OTHER               -> "Unexpected error"

IdleSearch ==
    [ pc |-> "idle", caller |-> "", cancer_type |-> PyNone, location |-> PyNone,
      stage |-> PyNone, age |-> PyNone,
      requests |-> <<>>, responses |-> <<>>, result |-> <<>> ]

\* Mutant: both requests go out at the start of the call.
StartSearchBothRequests(caller, cancer_type, location, stage, age) ==
    [ pc |-> "scoped", caller |-> caller, cancer_type |-> cancer_type,
      location |-> location, stage |-> stage, age |-> age,
      requests |-> <<ScopedParams(cancer_type, location), NationwideParams(cancer_type)>>,
      responses |-> <<>>, result |-> <<>> ]

\* Mutant: the stage is a term of the condition query.
StartSearchStageInQuery(caller, cancer_type, location, stage, age) ==
    [ pc |-> "scoped", caller |-> caller, cancer_type |-> cancer_type,
      location |-> location, stage |-> stage, age |-> age,
      requests |-> << [ScopedParams(cancer_type, location) EXCEPT
                          !["query.cond"] = IF stage.t = "str"
                                            THEN PyStr(cancer_type.s \o <<Blank>> \o stage.s)
                                            ELSE cancer_type] >>,
      responses |-> <<>>, result |-> <<>> ]

\* clinicaltrials_api.py:26-45: up to the first `await client.get`.
StartSearch(caller, cancer_type, location, stage, age) ==
    [ pc |-> "scoped", caller |-> caller, cancer_type |-> cancer_type,
      location |-> location, stage |-> stage, age |-> age,
      requests |-> <<ScopedParams(cancer_type, location)>>,
      responses |-> <<>>, result |-> <<>> ]

\* The call returns `result` (lines 77, 81, 85, 89).
ReturnSearch(resp, result) ==
    [search EXCEPT !.pc = "done", !.responses = Append(@, resp), !.result = result]

\* clinicaltrials_api.py:56-68: no parsed trial, the second request goes out.
IssueNationwide(resp) ==
    [search EXCEPT !.pc = "nationwide", !.responses = Append(@, resp),
                   !.requests = Append(@, NationwideParams(search.cancer_type))]

\* Mutant: the fallback also runs when a single local trial was found.
AfterScopedFallbackBelowTwo(resp) ==
    IF resp.kind # "ok"
    THEN ReturnSearch(resp, get_error_response(search.cancer_type, search.location,
                                                ErrorMsg(resp.kind)))
    ELSE LET trials == parse_trials(resp.studies, search.location, PyFalse) IN
         IF Len(trials) < 2 THEN IssueNationwide(resp) ELSE ReturnSearch(resp, trials)

\* Mutant: a failed scoped request falls back to the nationwide request.
AfterScopedFallbackOnError(resp) ==
    LET trials == IF resp.kind = "ok"
                  THEN parse_trials(resp.studies, search.location, PyFalse)
                  ELSE <<>>
    IN  IF trials = <<>> THEN IssueNationwide(resp) ELSE ReturnSearch(resp, trials)

\* Mutant: the fallback is decided on the raw studies, not on the parsed trials.
AfterScopedFallbackOnNoStudies(resp) ==
    IF resp.kind # "ok"
    THEN ReturnSearch(resp, get_error_response(search.cancer_type, search.location,
                                                ErrorMsg(resp.kind)))
    ELSE IF resp.studies = <<>>
         THEN IssueNationwide(resp)
         ELSE ReturnSearch(resp, parse_trials(resp.studies, search.location, PyFalse))

\* clinicaltrials_api.py:45-58 and 79-89: the scoped response arrives.
AfterScoped(resp) ==
    IF resp.kind # "ok"
    THEN ReturnSearch(resp, get_error_response(search.cancer_type, search.location,
                                                ErrorMsg(resp.kind)))
    ELSE LET trials == parse_trials(resp.studies, search.location, PyFalse) IN
         IF trials = <<>> THEN IssueNationwide(resp) ELSE ReturnSearch(resp, trials)

\* clinicaltrials_api.py:68-77 and 79-89: the nationwide response arrives.
AfterNationwide(resp) ==
    IF resp.kind # "ok"
    THEN ReturnSearch(resp, get_error_response(search.cancer_type, search.location,
                                                ErrorMsg(resp.kind)))
    ELSE ReturnSearch(resp, parse_trials(resp.studies, search.location, PyTrue))

(***************************************************************************)
(* nlp.py                                                                  *)
(***************************************************************************)
\* nlp.py:26-30
INTENT_LABELS == (0 :> "find_trials") @@ (1 :> "goodbye") @@ (2 :> "greeting")

\* The utterances of the model, and what the two trained models make of them
\* (the argmax of the intent model, the entities the NER tags spell out).
Texts ==
    { "Hello!", "Thanks, goodbye!", "Can you find clinical trials for me?",
      "lung cancer trials for a 65 year old" }

IntentArgmax(text) ==
    CASE text = "Hello!"           -> 2
      [] text = "Thanks, goodbye!" -> 1
      [] OTHER                     -> 0

NerEntities(text) ==
    IF text = "lung cancer trials for a 65 year old"
    THEN [cancer_type |-> Lung, age |-> PyStr(<<"65">>), sex |-> PyNone, location |-> PyNone]
    ELSE [cancer_type |-> PyNone, age |-> PyNone, sex |-> PyNone, location |-> PyNone]

\* How a model behaves in one call: loaded and predicting, not loaded
\* (load_models never ran), or raising inside the try block.
ModelStates == {"loaded", "not_loaded", "throws"}

\* The two models in one call of extract_entities.
ModelRuns ==
    { [intent |-> "loaded", ner |-> "loaded"],
      [intent |-> "not_loaded", ner |-> "not_loaded"],
      [intent |-> "throws", ner |-> "throws"] }

\* nlp.py:84-121
predict_intent(text, model) ==
    IF model = "not_loaded" THEN "find_trials"
    ELSE IF model = "throws" THEN "find_trials"
    ELSE DictGet(INTENT_LABELS, IntentArgmax(text), "find_trials")

\* nlp.py:124-229
predict_entities(text, model) ==
    IF model = "loaded" THEN NerEntities(text) ELSE EmptyDict

\* Mutant: the result keeps its None values.
extract_entities_keeps_none(user_input, models) ==
    LET intent   == predict_intent(user_input, models.intent)
        entities == predict_entities(user_input, models.ner)
    IN  [ intent      |-> PyStr(<<intent>>),
          cancer_type |-> DictGet(entities, "cancer_type", PyNone),
          location    |-> DictGet(entities, "location", PyNone),
          age         |-> DictGet(entities, "age", PyNone),
          sex         |-> DictGet(entities, "sex", PyNone) ]

\* Mutant: the result has the stage key that the docstring shows.
extract_entities_with_stage(user_input, models) ==
    LET intent   == predict_intent(user_input, models.intent)
        entities == predict_entities(user_input, models.ner)
        result   == [ intent      |-> PyStr(<<intent>>),
                      cancer_type |-> DictGet(entities, "cancer_type", PyNone),
                      stage       |-> PyStr(<<"Stage", Blank, "2">>),
                      location    |-> DictGet(entities, "location", PyNone),
                      age         |-> DictGet(entities, "age", PyNone),
                      sex         |-> DictGet(entities, "sex", PyNone) ]
        kept     == {k \in DOMAIN result : result[k] # PyNone}
    IN  [k \in kept |-> result[k]]

\* nlp.py:253-277: the result without its None values.
extract_entities(user_input, models) ==
    LET intent   == predict_intent(user_input, models.intent)
        entities == predict_entities(user_input, models.ner)
        result   == [ intent      |-> PyStr(<<intent>>),
                      cancer_type |-> DictGet(entities, "cancer_type", PyNone),
                      location    |-> DictGet(entities, "location", PyNone),
                      age         |-> DictGet(entities, "age", PyNone),
                      sex         |-> DictGet(entities, "sex", PyNone) ]
        kept     == {k \in DOMAIN result : result[k] # PyNone}
    IN  [k \in kept |-> result[k]]

\* nlp.py:231: the parameters of extract_entities.
extract_entities_parameters == {"user_input"}

\* A Python call: a keyword the function does not declare raises TypeError
\* before the body runs.
CallExtractEntities(user_input, keywords, models) ==
    IF keywords \subseteq extract_entities_parameters
    THEN [raised |-> "", value |-> extract_entities(user_input, models)]
    ELSE [raised |-> "TypeError", value |-> EmptyDict]

(***************************************************************************)
(* Replies of the route handlers                                           *)
(***************************************************************************)
\* reply records the last handler call that finished: the request it was
\* given (call), the exception it raised ("" when it returned) and the body
\* it returned.
NoForm ==
    [ cancer_type |-> PyNone, stage |-> PyNone, age |-> PyNone, sex |-> PyNone,
      location |-> PyNone, comorbidities |-> PyNone, prior_treatments |-> PyNone ]
NoModels == [intent |-> "", ner |-> ""]

IntakeCall(u, intake)        == [op |-> "submit_intake", user |-> u, form |-> intake, text |-> "", models |-> NoModels]
MessageCall(u, text, models) == [op |-> "handle_message", user |-> u, form |-> NoForm, text |-> text, models |-> models]
EndCall(u)                   == [op |-> "end_session", user |-> u, form |-> NoForm, text |-> "", models |-> NoModels]

NoReply == [ call |-> [op |-> "none", user |-> "", form |-> NoForm, text |-> "", models |-> NoModels],
             raised |-> "", body |-> EmptyDict ]

Returned(call, body) == [call |-> call, raised |-> "", body |-> body]
Raised(call, exc)    == [call |-> call, raised |-> exc, body |-> EmptyDict]

\* chat.py:42-46
IntakeConfirmation ==
    [ response        |-> PyStr(<<"Thank you for sharing that information with me. How can I help you find clinical trials today?">>),
      intake_complete |-> PyTrue ]

\* chat.py:61-64
RequiresIntake ==
    [ response        |-> PyStr(<<"Please complete the intake form before proceeding.">>),
      requires_intake |-> PyTrue ]

\* chat.py:120
SessionCleared == [ status |-> PyStr(<<"session_cleared">>) ]

(***************************************************************************)
(* chat.py: the turn that is suspended in the registry call                *)
(***************************************************************************)
\* `state` of a suspended handle_message is a reference: while the store still
\* holds the same object (shared), what other handlers assign to it shows in
\* the turn as well.
NoTurn == [ pc |-> "none", call |-> MessageCall("", "", NoModels),
            state |-> ConversationState, shared |-> FALSE ]

\* The suspended turn after the object of session u became obj.
TouchTurn(u, obj) ==
    IF turn.pc = "searching" /\ turn.call.user = u /\ turn.shared
    THEN [turn EXCEPT !.state = obj]
    ELSE turn

\* The suspended turn after the entry of session u left the store.
DetachTurn(u) ==
    IF turn.pc = "searching" /\ turn.call.user = u
    THEN [turn EXCEPT !.shared = FALSE]
    ELSE turn

(***************************************************************************)
(* chat.py:22-46  submit_intake                                            *)
(***************************************************************************)
\* Mutant: the two lists are stored as submitted, without `or []`.
IntakeStateNoDefault(state, intake) ==
    LET s1 == setattr(state, "cancer_type", intake.cancer_type)
        s2 == setattr(s1, "stage", intake.stage)
        s3 == setattr(s2, "age", intake.age)
        s4 == setattr(s3, "sex", intake.sex)
        s5 == setattr(s4, "location", intake.location)
        s6 == setattr(s5, "comorbidities", intake.comorbidities)
        s7 == setattr(s6, "prior_treatments", intake.prior_treatments)
    IN  setattr(s7, "intake_complete", PyTrue)

\* chat.py:27-37: the object after the eight assignments.
IntakeState(state, intake) ==
    LET s1 == setattr(state, "cancer_type", intake.cancer_type)
        s2 == setattr(s1, "stage", intake.stage)
        s3 == setattr(s2, "age", intake.age)
        s4 == setattr(s3, "sex", intake.sex)
        s5 == setattr(s4, "location", intake.location)
        s6 == setattr(s5, "comorbidities", PyOr(intake.comorbidities, PyList(<<>>)))
        s7 == setattr(s6, "prior_treatments", PyOr(intake.prior_treatments, PyList(<<>>)))
    IN  setattr(s7, "intake_complete", PyTrue)

\* The handler has no await: it runs to completion in one step.
submit_intake(u, intake) ==
    LET state == IntakeState(StoreGet(u), intake) IN
    /\ active_states' = StorePut(active_states, u, state)
    /\ reply' = Returned(IntakeCall(u, intake), IntakeConfirmation)
    /\ turn' = IF InStore(u) THEN TouchTurn(u, state) ELSE turn
    /\ UNCHANGED <<search, probe>>

(***************************************************************************)
(* chat.py:110-120  end_session                                            *)
(***************************************************************************)
\* Mutant: the session is reset to a new ConversationState and stays in the store.
StoreReset(store, u) ==
    IF store[u] # NoEntry THEN [store EXCEPT ![u] = ConversationState] ELSE store

\* Mutant: active_states.clear() instead of deleting the one key.
StoreClear(store, u) == [v \in DOMAIN store |-> NoEntry]

\* chat.py:116-117
StoreDelete(store, u) == IF store[u] # NoEntry THEN [store EXCEPT ![u] = NoEntry] ELSE store

\* The store is read after the only await (request.json()).
end_session(u) ==
    /\ active_states' = StoreDelete(active_states, u)
    /\ reply' = Returned(EndCall(u), SessionCleared)
    /\ turn' = DetachTurn(u)
    /\ UNCHANGED <<search, probe>>

(***************************************************************************)
(* chat.py:49-108  handle_message                                          *)
(***************************************************************************)
\* chat.py:79-81: every returned key that is an attribute of the state is
\* assigned (the keys of a dict are distinct, the order does not matter).
Merge(state, entities) ==
    [k \in DOMAIN state |-> IF k \in DOMAIN entities THEN entities[k] ELSE state[k]]

\* str(v) inside an f-string.
Format(v) ==
    CASE v.t = "str"      -> v.s
      [] v.t = "NoneType" -> <<"None">>
      [] OTHER            -> <<v>>

Greeting == [response |-> PyStr(<<"Hello! How can I help you find clinical trials today?">>)]
Goodbye  == [response |-> PyStr(<<"Goodbye! Feel free to return anytime you need help finding clinical trials.">>)]
Clarify  == [response |-> PyStr(<<"I'm here to help you find clinical trials. What would you like to know?">>)]

\* chat.py:97-100
TrialsResponse(state, trials) ==
    [ response |-> PyStr(<<"Here are some ">> \o Format(state.cancer_type)
                         \o <<" clinical trials in ">> \o Format(state.location) \o <<":">>),
      trials   |-> trials ]

\* chat.py:84-103 for the intents that need no registry call.
CannedResponse(intent) ==
    IF intent = PyStr(<<"greeting">>) THEN Greeting
    ELSE IF intent = PyStr(<<"goodbye">>) THEN Goodbye
    ELSE Clarify

\* chat.py:75: the call and the keyword it passes.
NluCall(user_input, models) == CallExtractEntities(user_input, {"intake_context"}, models)

\* chat.py:60: reading state.intake_complete.
IntakeGate(state) ==
    IF ~hasattr(state, "intake_complete") THEN "AttributeError"
    ELSE IF ~Truthy(state["intake_complete"]) THEN "requires_intake"
    ELSE "pass"

\* Does the turn reach `await search_clinical_trials` (chat.py:88-96)?
ReachesSearch(u, user_input, models) ==
    /\ IntakeGate(StoreGet(u)) = "pass"
    /\ NluCall(user_input, models).raised = ""
    /\ DictGet(NluCall(user_input, models).value, "intent", PyNone) = PyStr(<<"find_trials">>)

\* One turn, from the read of the store (the body was awaited before) to its
\* return, its exception, or its suspension in the registry call.  The model
\* keeps one registry call and one suspended turn at a time.
handle_message(u, user_input, models) ==
    LET state == StoreGet(u)
        gate  == IntakeGate(state)
        call  == NluCall(user_input, models)
    IN
    /\ ReachesSearch(u, user_input, models) => turn.pc = "none" /\ search.pc \in {"idle", "done"}
    /\ UNCHANGED probe
    /\ IF gate = "AttributeError"
       THEN /\ reply' = Raised(MessageCall(u, user_input, models), "AttributeError")
            /\ UNCHANGED <<active_states, search, turn>>
       ELSE IF gate = "requires_intake"
       THEN /\ reply' = Returned(MessageCall(u, user_input, models), RequiresIntake)
            /\ UNCHANGED <<active_states, search, turn>>
       ELSE IF call.raised # ""
       THEN /\ reply' = Raised(MessageCall(u, user_input, models), call.raised)
            /\ UNCHANGED <<active_states, search, turn>>
       ELSE LET entities == call.value
                merged   == Merge(state, entities)
                intent   == DictGet(entities, "intent", PyNone)
            IN  IF intent = PyStr(<<"find_trials">>)
                THEN \* lines 79-81 assigned to the stored object; the final
                     \* write of line 106 waits for the registry
                     /\ active_states' = IF InStore(u)
                                         THEN StorePut(active_states, u, merged)
                                         ELSE active_states
                     /\ turn' = [pc |-> "searching",
                                 call |-> MessageCall(u, user_input, models),
                                 state |-> merged, shared |-> InStore(u)]
                     /\ search' = StartSearch("handle_message", merged["cancer_type"],
                                              merged["location"], merged["stage"], merged["age"])
                     /\ UNCHANGED reply
                ELSE /\ active_states' = StorePut(active_states, u, merged)
                     /\ reply' = Returned(MessageCall(u, user_input, models),
                                          CannedResponse(intent))
                     /\ turn' = TouchTurn(u, merged)
                     /\ UNCHANGED search

(***************************************************************************)
(* search_clinical_trials: called by a turn or directly (tests/API_Testing) *)
(***************************************************************************)
SearchArgs ==
    [ cancer_type : {Lung}, location : {Boston, Siloam},
      stage : {PyNone}, age : {PyNone} ]

search_clinical_trials(args) ==
    /\ search.pc \in {"idle", "done"}
    /\ search' = StartSearch("direct", args.cancer_type, args.location, args.stage, args.age)
    /\ UNCHANGED <<active_states, reply, turn, probe>>

\* The search went on to s; when it returned to a suspended turn, the turn
\* finishes: chat.py:97-108.
Resume(s) ==
    /\ search' = s
    /\ UNCHANGED probe
    /\ IF s.pc = "done" /\ s.caller = "handle_message"
       THEN /\ reply' = Returned(turn.call, TrialsResponse(turn.state, s.result))
            /\ active_states' = StorePut(active_states, turn.call.user, turn.state)
            /\ turn' = NoTurn
       ELSE UNCHANGED <<active_states, reply, turn>>

scoped_response(resp) ==
    /\ search.pc = "scoped"
    /\ Resume(AfterScoped(resp))

nationwide_response(resp) ==
    /\ search.pc = "nationwide"
    /\ Resume(AfterNationwide(resp))

Init ==
    /\ active_states = [u \in Users |-> NoEntry]
    /\ reply = NoReply
    /\ search = IdleSearch
    /\ turn = NoTurn
    /\ probe = NoProbe

Next ==
    \/ \E u \in Users, intake \in IntakeForms : submit_intake(u, intake)
    \/ \E u \in Users, text \in Texts, models \in ModelRuns : handle_message(u, text, models)
    \/ \E u \in Users : end_session(u)
    \/ \E args \in SearchArgs : search_clinical_trials(args)
    \/ \E resp \in RegistryResponses : scoped_response(resp)
    \/ \E resp \in RegistryResponses : nationwide_response(resp)

Spec == Init /\ [][Next]_vars

\* search_clinical_trials on its own, as tests/API_Testing calls it, with and
\* without the optional arguments.
DirectSearchArgs ==
    [ cancer_type : {Lung}, location : {Boston, Siloam},
      stage : {PyNone, PyStr(<<"stage", Blank, "3">>)}, age : {PyNone, PyInt(55)} ]

SearchNext ==
    \/ \E args \in DirectSearchArgs : search_clinical_trials(args)
    \/ \E resp \in RegistryResponses : scoped_response(resp)
    \/ \E resp \in RegistryResponses : nationwide_response(resp)

SearchSpec == Init /\ [][SearchNext]_vars

\* parse_trials on its own: one argument list, one direct call.
ParseInit ==
    /\ active_states = [u \in Users |-> NoEntry]
    /\ reply = NoReply
    /\ search = IdleSearch
    /\ turn = NoTurn
    /\ probe \in { [fn |-> "none", arg |-> a, result |-> <<>>, origin |-> a, applied |-> 0] :
                      a \in ParseArgs }

ParseNext == call_parse_trials

ParseSpec == ParseInit /\ [][ParseNext]_vars

\* The location helpers on their own: one argument, one direct call.
LocationInit ==
    /\ active_states = [u \in Users |-> NoEntry]
    /\ reply = NoReply
    /\ search = IdleSearch
    /\ turn = NoTurn
    /\ probe \in { ProbeOf(location) : location \in LocationInputs }

LocationNext ==
    \/ call_format_location_for_api
    \/ call_format_location_again
    \/ call_parse_location_for_api

LocationSpec == LocationInit /\ [][LocationNext]_vars

(***************************************************************************)
(* Properties                                                              *)
(***************************************************************************)
\* The session of u has a stored state whose intake_complete is True.
IntakeDone(e) == e # NoEntry /\ hasattr(e, "intake_complete") /\ e["intake_complete"] = PyTrue

\* This step is a handle_message call on session u that returned or raised.
MessageStep(u) ==
    /\ reply' # reply
    /\ reply'.call.op = "handle_message"
    /\ reply'.call.user = u

\* C1: every handle_message call on a session whose intake is not complete,
\* a session id that is not in the store included, returns the
\* intake-required response, and no stored state changes.
C1_MessageBeforeIntakeAsksForIntake ==
    [][ \A u \in Users :
          (MessageStep(u) /\ ~IntakeDone(active_states[u]))
            => /\ reply'.raised = ""
               /\ reply'.body = RequiresIntake
               /\ active_states' = active_states ]_vars

\* C2: the intake of a session becomes complete only by a submit_intake for
\* that session, and once complete it stays complete until an end_session for
\* that session removes the entry; no handle_message turn changes it.
C2_IntakeCompleteSetOnceByIntake ==
    [][ \A u \in Users :
          /\ (~IntakeDone(active_states[u]) /\ IntakeDone(active_states'[u]))
               => (reply'.call.op = "submit_intake" /\ reply'.call.user = u)
          /\ (IntakeDone(active_states[u]) /\ ~IntakeDone(active_states'[u]))
               => /\ reply'.call.op = "end_session"
                  /\ reply'.call.user = u
                  /\ active_states'[u] = NoEntry ]_vars

C2_Witness ==
    /\ IntakeDone(active_states["u1"])
    /\ reply.call.op = "handle_message"
    /\ reply.call.user = "u1"

\* The list a submitted value stands for: [] when it was omitted or null.
SubmittedList(v) == IF v.t = "list" THEN v ELSE PyList(<<>>)

\* The state that holds exactly the values of a form.
StateOfForm(f) ==
    [ cancer_type      |-> f.cancer_type,
      stage            |-> f.stage,
      age              |-> f.age,
      sex              |-> f.sex,
      location         |-> f.location,
      comorbidities    |-> SubmittedList(f.comorbidities),
      prior_treatments |-> SubmittedList(f.prior_treatments),
      intake_complete  |-> PyTrue ]

\* No stored state has only some of the intake's fields.
NoPartialIntake ==
    \A u \in Users :
        InStore(u) =>
            /\ IntakeDone(active_states[u])
            /\ \A k \in {"cancer_type", "stage", "age", "sex", "location"} :
                   active_states[u][k] # PyNone

\* C3: after submit_intake the store holds for the user exactly the submitted
\* values (an omitted or null list as []), with intake_complete True; no
\* partly written state is ever in the store; the confirmation carries
\* intake_complete = True.
C3_IntakeStoresAllFieldsAtOnce ==
    /\ []NoPartialIntake
    /\ [][ (reply' # reply /\ reply'.call.op = "submit_intake")
             => /\ active_states'[reply'.call.user] = StateOfForm(reply'.call.form)
                /\ reply'.raised = ""
                /\ reply'.body = IntakeConfirmation
                /\ reply'.body["intake_complete"] = PyTrue ]_vars

C3_Witness ==
    /\ reply.call.op = "submit_intake"
    /\ reply.call.form.comorbidities = PyNone
    /\ reply.call.form.prior_treatments = PyList(<<>>)
    /\ active_states[reply.call.user] = StateOfForm(reply.call.form)

\* C4: end_session returns {status: session_cleared} whether or not the user
\* is in the store, afterwards the store has no entry for the user, every
\* other entry is as before, and a second call changes nothing.
C4_EndSessionIdempotent ==
    [][ reply'.call.op = "end_session"
          => /\ reply'.raised = ""
             /\ reply'.body = SessionCleared
             /\ active_states' = [active_states EXCEPT ![reply'.call.user] = NoEntry] ]_vars

C4_Witness ==
    /\ reply.call.op = "end_session"
    /\ reply.call.user = "u1"
    /\ ~InStore("u1")
    /\ InStore("u2")

\* The number of studies of a response that parse_trials turns into records.
ParsedCount(resp) ==
    Cardinality({i \in 1..Len(resp.studies) : resp.studies[i].shape = "ok"})

\* The scoped request succeeded and yielded no record.
ScopedEmpty ==
    /\ Len(search.responses) >= 1
    /\ search.responses[1].kind = "ok"
    /\ ParsedCount(search.responses[1]) = 0

\* The scoped request succeeded and yielded at least one record.
ScopedFound ==
    /\ Len(search.responses) >= 1
    /\ search.responses[1].kind = "ok"
    /\ ParsedCount(search.responses[1]) >= 1

WithoutLocn(params) == [k \in DOMAIN params \ {"query.locn"} |-> params[k]]

\* Every record of the returned list carries is_nationwide = v.
AllNationwide(v) ==
    \A i \in 1..Len(search.result) :
        /\ "is_nationwide" \in DOMAIN search.result[i]
        /\ search.result[i]["is_nationwide"] = v

\* After a scoped request without records exactly one more request is out:
\* the first one without its query.locn.
OneNationwideRequest ==
    /\ Len(search.requests) = 2
    /\ "query.locn" \in DOMAIN search.requests[1]
    /\ search.requests[2] = WithoutLocn(search.requests[1])

\* C5 as stated: a scoped request that succeeds with zero records is followed
\* by exactly one request without query.locn, and every record of the
\* returned list has is_nationwide = true.
C5_EmptyScopedGivesNationwideRecords ==
    ScopedEmpty =>
        /\ OneNationwideRequest
        /\ search.pc = "done" => AllNationwide(PyTrue)

\* C5 amended: ... and every record of the returned list has is_nationwide =
\* true when the nationwide request succeeds as well.
C5_EmptyScopedGivesNationwideRecordsIfSecondSucceeds ==
    ScopedEmpty =>
        /\ OneNationwideRequest
        /\ (search.pc = "done" /\ search.responses[2].kind = "ok") => AllNationwide(PyTrue)

C5_Witness ==
    /\ ScopedEmpty
    /\ search.pc = "done"
    /\ search.responses[2].kind = "ok"
    /\ search.result # <<>>
    /\ AllNationwide(PyTrue)

\* C6: a scoped request that yields at least one record is the only request
\* of the call, and every returned record has is_nationwide = false.
C6_LocalRecordsNoFallback ==
    ScopedFound =>
        /\ search.pc = "done"
        /\ Len(search.requests) = 1
        /\ Len(search.responses) = 1
        /\ Len(search.result) = ParsedCount(search.responses[1])
        /\ AllNationwide(PyFalse)

C6_Witness ==
    /\ ScopedFound
    /\ search.pc = "done"
    /\ ParsedCount(search.responses[1]) < Len(search.responses[1].studies)

\* The list is the one synthetic error record.
IsErrorList(l) ==
    /\ Len(l) = 1
    /\ l[1]["nct_id"] = PyStr(<<"API_ERROR">>)
    /\ "message" \in DOMAIN l[1]
    /\ l[1]["message"].s # <<>>
    /\ l[1]["title"].s # <<>>

\* C7: a request that fails is the last request of the call, and the call
\* returns the one API_ERROR record with a non-empty diagnostic message.
C7_TransportFailureGivesOneErrorRecord ==
    \A i \in 1..Len(search.responses) :
        search.responses[i].kind # "ok"
          => /\ i = Len(search.responses)
             /\ search.pc = "done"
             /\ Len(search.requests) = i
             /\ IsErrorList(search.result)

C7_Witness ==
    /\ search.pc = "done"
    /\ Len(search.responses) = 2
    /\ search.responses[2].kind = "timeout"
    /\ IsErrorList(search.result)

\* C8: search_clinical_trials never returns an empty list.
C8_SearchNeverReturnsEmpty == search.pc = "done" => search.result # <<>>

\* Query-ready: intake complete, cancer_type and location not None.
QueryReady(e) ==
    /\ IntakeDone(e)
    /\ e["cancer_type"] # PyNone
    /\ e["location"] # PyNone

\* This step is a handle_message call on session u that went into the
\* registry call.
RegistryCalledByTurn(u) ==
    /\ turn.pc = "none"
    /\ turn'.pc = "searching"
    /\ turn'.call.user = u

\* C9: a turn calls the registry only if its intent is find_trials and the
\* state after the merge is query-ready; a find_trials turn on a state that
\* is not query-ready answers with a prompt and calls no registry.
C9_RegistryOnlyWhenQueryReady ==
    [][ \A u \in Users :
          /\ RegistryCalledByTurn(u)
                => /\ predict_intent(turn'.call.text, turn'.call.models.intent) = "find_trials"
                   /\ QueryReady(turn'.state)
          /\ ( /\ MessageStep(u)
               /\ predict_intent(reply'.call.text, reply'.call.models.intent) = "find_trials"
               /\ ~QueryReady(active_states'[u]) )
                => /\ reply'.raised = ""
                   /\ reply'.body \in {Clarify, RequiresIntake}
                   /\ search' = search ]_vars

\* C10: a turn on a ready session whose intent is greeting or goodbye makes
\* no registry call and returns the canned text without a trials field; after
\* a goodbye the session is still in the store.
C10_GreetingAndGoodbyeAreCanned ==
    [][ \A u \in Users :
          LET intent == predict_intent(reply'.call.text, reply'.call.models.intent) IN
          (MessageStep(u) /\ IntakeDone(active_states[u]) /\ intent \in {"greeting", "goodbye"})
            => /\ reply'.raised = ""
               /\ reply'.body = CannedResponse(PyStr(<<intent>>))
               /\ "trials" \notin DOMAIN reply'.body
               /\ search' = search
               /\ InStore(u)' ]_vars

\* The NLU call of a turn fails: the call raises, or a model is not loaded or
\* throws.
NluFails(text, models) ==
    \/ NluCall(text, models).raised # ""
    \/ models.intent # "loaded"
    \/ models.ner # "loaded"

\* C11: a turn on a ready session whose NLU call fails raises nothing, calls
\* no registry, changes no slot and returns the clarification prompt.
C11_NluFailureGivesClarification ==
    [][ \A u \in Users :
          /\ ( /\ MessageStep(u)
               /\ IntakeDone(active_states[u])
               /\ NluFails(reply'.call.text, reply'.call.models) )
                => /\ reply'.raised = ""
                   /\ reply'.body = Clarify
                   /\ active_states' = active_states
                   /\ search' = search
          /\ RegistryCalledByTurn(u)
                => ~NluFails(turn'.call.text, turn'.call.models) ]_vars

\* C12: after a turn on a ready session every key the NLU returns for the
\* utterance that is a field of the state holds the returned value in the
\* stored state, every other field holds what it held, and the state has
\* the attributes it had (intent adds none).
C12_ReturnedSlotsOverwriteStoredOnes ==
    [][ \A u \in Users :
          (MessageStep(u) /\ IntakeDone(active_states[u]))
            => LET returned == extract_entities(reply'.call.text, reply'.call.models) IN
               /\ InStore(u)'
               /\ DOMAIN active_states'[u] = DOMAIN active_states[u]
               /\ \A k \in DOMAIN active_states[u] :
                      active_states'[u][k] = IF k \in DOMAIN returned
                                             THEN returned[k]
                                             ELSE active_states[u][k] ]_vars

\* C19: on a ready session a turn whose NLU result is find_trials without a
\* cancer_type or location slot goes into one registry call with the
\* cancer_type, location, stage and age of the intake, and when the call
\* returns the turn returns a response that carries its list.
C19_FindTrialsSearchesWithIntakeValues ==
    [][ \A u \in Users :
          LET call     == IF RegistryCalledByTurn(u) THEN turn'.call ELSE reply'.call
              returned == extract_entities(call.text, call.models)
          IN  ( /\ MessageStep(u) \/ RegistryCalledByTurn(u)
                /\ IntakeDone(active_states[u])
                /\ returned["intent"] = PyStr(<<"find_trials">>)
                /\ DOMAIN returned = {"intent"} )
                  => IF turn.pc = "none"
                     THEN /\ RegistryCalledByTurn(u)
                          /\ search'.caller = "handle_message"
                          /\ Len(search'.requests) = 1
                          /\ search'.cancer_type = active_states[u]["cancer_type"]
                          /\ search'.location = active_states[u]["location"]
                          /\ search'.stage = active_states[u]["stage"]
                          /\ search'.age = active_states[u]["age"]
                     ELSE /\ reply'.raised = ""
                          /\ "trials" \in DOMAIN reply'.body
                          /\ reply'.body["trials"] = search'.result ]_vars

\* C20: the records of a returned list are all of the scoped request
\* (is_nationwide False) or all of the nationwide request (is_nationwide
\* True); the error record has no is_nationwide field.
C20_IsNationwideUniform ==
    search.pc = "done" =>
        \/ /\ ~IsErrorList(search.result)
           /\ AllNationwide(IF Len(search.requests) = 2 THEN PyTrue ELSE PyFalse)
        \/ /\ IsErrorList(search.result)
           /\ "is_nationwide" \notin DOMAIN search.result[1]

C20_Witness ==
    /\ search.pc = "done"
    /\ Len(search.requests) = 2
    /\ Len(search.result) = 2
    /\ search.result[1]["is_nationwide"] = PyTrue
    /\ search.result[2]["is_nationwide"] = PyTrue

\* C22: the stored state of a session, and its presence in the store, change
\* only in a step of an operation on that session.
C22_SessionsAreIndependent ==
    [][ \A b \in Users :
          active_states'[b] # active_states[b]
            => \/ RegistryCalledByTurn(b)
               \/ reply' # reply /\ reply'.call.user = b ]_vars

C22_Witness ==
    /\ reply.call.op = "submit_intake"
    /\ reply.call.user = "u2"
    /\ reply.call.form.cancer_type = Lung
    /\ IntakeDone(active_states["u1"])
    /\ active_states["u1"]["cancer_type"] = Breast
    /\ active_states["u1"]["comorbidities"] = PyList(<<>>)

\* The states that the merge of a turn (chat.py:75-81) can make of a state:
\* one for every utterance and every behaviour of the two models.
MergedStates(state) ==
    { Merge(state, extract_entities(text, models)) : text \in Texts, models \in ModelRuns }

IsOptionalInt(v) == v.t \in {"NoneType", "int"}

C25_StoredStatesAreQueryReady ==
    \A u \in Users :
        InStore(u) =>
            /\ QueryReady(active_states[u])
            /\ \A merged \in MergedStates(active_states[u]) : QueryReady(merged)

C25_Witness ==
    /\ QueryReady(active_states["u1"])
    /\ ~InStore("u2")
    /\ reply.call.op = "handle_message"
    /\ reply.call.user = "u2"

\* The fields that no turn writes.
IntakeOnlyFields == {"stage", "comorbidities", "prior_treatments"}

C21_RequestsAreSequential ==
    /\ Len(search.requests) <= 2
    /\ Len(search.responses) <= Len(search.requests)
    /\ Len(search.requests) - Len(search.responses) <= 1
    /\ search.pc \in {"scoped", "nationwide"}
          <=> Len(search.requests) = Len(search.responses) + 1
    /\ Len(search.requests) = 2
          => /\ Len(search.responses) >= 1
             /\ search.responses[1].kind = "ok"
             /\ search.requests[2] # search.requests[1]
             /\ "query.locn" \notin DOMAIN search.requests[2]

C21_Witness ==
    /\ search.pc = "nationwide"
    /\ Len(search.requests) = 2
    /\ Len(search.responses) = 1

\* C27: the nationwide request is issued if and only if the scoped request
\* succeeded and no study of its response was parsed into a record, whatever
\* the location is.
C27_FallbackIffNoParsedRecord ==
    Len(search.responses) >= 1
        => ( Len(search.requests) = 2
               <=> /\ search.responses[1].kind = "ok"
                   /\ ParsedCount(search.responses[1]) = 0 )

C27_Witness ==
    /\ Len(search.requests) = 2
    /\ search.responses[1].studies # <<>>
    /\ ParsedCount(search.responses[1]) = 0
    /\ search.location = Boston

\* The requests and the list of a call as cancer_type, location and the
\* responses received determine them.
RequestsOf(cancer_type, location, n) ==
    SubSeq(<<ScopedParams(cancer_type, location), NationwideParams(cancer_type)>>, 1, n)

ResultOf(cancer_type, location, responses) ==
    LET last == responses[Len(responses)] IN
    IF last.kind # "ok"
    THEN get_error_response(cancer_type, location, ErrorMsg(last.kind))
    ELSE parse_trials(last.studies, location, IF Len(responses) = 2 THEN PyTrue ELSE PyFalse)

\* C28: the requests issued and the list returned are determined by
\* cancer_type, location and the responses, so that two calls that differ
\* in stage and age only issue the same requests and return the same list.
C28_StageAndAgeHaveNoInfluence ==
    search.pc # "idle" =>
        /\ search.requests = RequestsOf(search.cancer_type, search.location,
                                        Len(search.requests))
        /\ search.pc = "done"
              => search.result = ResultOf(search.cancer_type, search.location,
                                          search.responses)

C28_Witness ==
    /\ search.pc = "done"
    /\ search.stage = PyStr(<<"stage", Blank, "3">>)
    /\ search.age = PyInt(55)
    /\ Len(search.requests) = 2
    /\ search.result # <<>>
    /\ AllNationwide(PyTrue)

(***************************************************************************)
(* Properties of parse_trials on its own (ParseSpec)                       *)
(***************************************************************************)
\* C24: the result of parse_trials has one record for every study that
\* parses, in the order of the studies, and nothing for a study that fails.
C24_ParseTrialsSkipsBadRecords ==
    probe.fn = "parse_trials"
        => LET IsParsed(study) == study.shape = "ok"
               parsed == SelectSeq(probe.arg.studies, IsParsed)
           IN  /\ Len(probe.result) = Len(parsed)
               /\ Len(probe.result) <= Len(probe.arg.studies)
               /\ \A i \in 1..Len(parsed) :
                      probe.result[i] = Trial(parsed[i], probe.arg.requested_location,
                                              probe.arg.is_nationwide)

C24_Witness ==
    /\ probe.fn = "parse_trials"
    /\ probe.arg.studies = << [nctId |-> "NCT3", shape |-> "ok"],
                              [nctId |-> "NCT2", shape |-> "bad"],
                              [nctId |-> "NCT1", shape |-> "ok"] >>
    /\ Len(probe.result) = 2
    /\ probe.result[1]["nct_id"] = PyStr(<<"NCT3">>)
    /\ probe.result[2]["nct_id"] = PyStr(<<"NCT1">>)

(***************************************************************************)
(* Properties of the location helpers (LocationSpec)                       *)
(***************************************************************************)
\* The whitespace-delimited tokens of a str.
TokensOf(v) == Split(v.s)

\* The token is a state: a full name of the table in any case, or one of its
\* abbreviations.
IsStateToken(token) ==
    \/ Lower(token) \in DOMAIN state_abbreviations
    \/ \E name \in DOMAIN state_abbreviations : token = <<state_abbreviations[name]>>

\* One city token and one state token, each a single word.
WellFormedTwoTokens(v) ==
    /\ v.t = "str"
    /\ Len(TokensOf(v)) = 2
    /\ \A i \in 1..2 : Len(TokensOf(v)[i]) = 1 /\ TokensOf(v)[i][1] # Comma
    /\ IsStateToken(TokensOf(v)[2])

\* C14: formatting the formatted form of a well-formed two-token location
\* gives the same string again.
C14_FormatLocationIdempotent ==
    ( /\ probe.fn = "format_location_for_api"
      /\ probe.applied = 2
      /\ WellFormedTwoTokens(probe.origin) )
        => probe.result = probe.arg

\* The full state names of the lookup table that a token can spell.
IsStateName(token) == \E name \in DOMAIN state_abbreviations : Lower(token) = name

AbbreviationOf(token) ==
    state_abbreviations[CHOOSE name \in DOMAIN state_abbreviations : Lower(token) = name]

ExampleCities == { <<"Boston">>, <<"New", Blank, "York">> }

\* C16: "<city> <state name>" gives "<city>, <abbreviation>" for every state
\* name of the table, the two-word names included.
C16_FormatLocationEveryStateName ==
    \A name \in DOMAIN state_abbreviations : \A city \in ExampleCities :
        ( /\ probe.fn = "format_location_for_api"
          /\ probe.applied = 1
          /\ probe.arg.t = "str"
          /\ Lower(probe.arg.s) = Lower(city) \o <<Blank>> \o name )
            => probe.result = PyStr(city \o <<Comma, Blank, state_abbreviations[name]>>)

\* C17: for a str of fewer than two tokens the abbreviated form is the
\* argument itself, blanks included, and the qualifier form is None.
C17_FewerThanTwoTokensSoftFailure ==
    ( /\ probe.fn # "none"
      /\ probe.applied = 1
      /\ probe.arg.t = "str"
      /\ Len(TokensOf(probe.arg)) < 2 )
        => /\ probe.fn = "format_location_for_api" => probe.result = probe.arg
           /\ probe.fn = "parse_location_for_api" => probe.result = PyNone

C17_Witness ==
    /\ probe.fn = "format_location_for_api"
    /\ probe.arg = PyStr(<<Blank, "Boston", Blank>>)
    /\ probe.result = probe.arg

====
